---------------------------- MODULE Spec2Model ----------------------------
(***************************************************************************)
(* A model of ntil (src/ntil.js): a handler factory that calls a performer *)
(* until a checker accepts its result, backing off between attempts, and   *)
(* the chained builder that assembles the same five configuration values.  *)
(*                                                                         *)
(* One action of the model is one run-to-completion turn of the JavaScript *)
(* event loop: a call of ntil() or of a builder method, a call of a        *)
(* handler, the firing of a retry timer, or the arrival of a performer's   *)
(* deferred completion.                                                    *)
(***************************************************************************)
EXTENDS Integers, Sequences, FiniteSets

(***************************************************************************)
(* Bounds of the model.                                                    *)
(***************************************************************************)
\* handler invocations that may be in progress at the same time
MaxRuns == 2
\* handler arguments a and b range over 1..MaxArg
MaxArg == 2
\* objects (builders, handlers) the caller keeps; what a later construction
\* call returns is dropped
MaxObjects == 2

(***************************************************************************)
(* Program constants: the defaults of ntil.js lines 143-145.               *)
(***************************************************************************)
DefaultWaitSecs == 1
DefaultWaitMult == 2
DefaultMaxCalls == 7

(***************************************************************************)
(* JavaScript values.  A value is a record tagged with its type; typeof    *)
(* v === 'function' is the test of lines 139, 140, 156 and 167.            *)
(***************************************************************************)
Undef == [t |-> "undefined"]
Fn(id) == [t |-> "function", id |-> id]
Num(n) == [t |-> "number", n |-> n]
Obj(o) == [t |-> "object", o |-> o]

IsFunction(v) == v.t = "function"

\* `v || {}` and the reading of an option field.  A field is <<>> when
\* undefined, <<x>> when set.  A truthy value that is not an object is kept
\* by `||`: a function has a name property (its declared name, "" when it
\* has none) and none of the other fields; a number has no field at all.
NoOptions == [name |-> <<>>, logger |-> FALSE, waitSecs |-> <<>>,
              waitMult |-> <<>>, maxCalls |-> <<>>]

\* the name property of a function: its declared name, "" when it has none.
FunctionName(id) == IF id = "anon" THEN "" ELSE id

OptsOrEmpty(v) ==
  IF v.t = "object" THEN v.o
  ELSE IF v.t = "function"
    THEN [NoOptions EXCEPT !.name = <<FunctionName(v.id)>>]
  ELSE NoOptions

\* `field || dflt` on a number field: undefined and 0 are falsy.
OrDefault(field, dflt) ==
  IF field = <<>> \/ field[1] = 0 THEN dflt ELSE field[1]

\* opts.name || performer.name || 'anonymous function'
ResolveName(o, performer) ==
  IF o.name # <<>> /\ o.name[1] # "" THEN o.name[1]
  ELSE IF FunctionName(performer.id) # "" THEN FunctionName(performer.id)
  ELSE "anonymous function"

Sig == "Check params: function ntil(checker, performer, success, failure, opts)"

\* a builder that drops the options slot it is created with
chainNoOpts(checker, opts) ==
  [checker |-> checker, opts |-> Undef,
   perform |-> Undef, success |-> Undef, failure |-> Undef]

(***************************************************************************)
(* chain(checker, opts): the builder object.  opts is the closure variable *)
(* of line 127; perform, success and failure are properties of the object, *)
(* undefined until their setter is called.                                 *)
(***************************************************************************)
chain(checker, opts) ==
  [checker |-> checker, opts |-> opts,
   perform |-> Undef, success |-> Undef, failure |-> Undef]

\* lines 141-145: the configuration a handler closes over
HandlerConfig(checker, performer, success, failure, o) ==
  [checker  |-> checker, performer |-> performer,
   success  |-> success, failure   |-> failure,
   name     |-> ResolveName(o, performer),
   logger   |-> o.logger,
   waitSecs |-> OrDefault(o.waitSecs, DefaultWaitSecs),
   waitMult |-> OrDefault(o.waitMult, DefaultWaitMult),
   maxCalls |-> OrDefault(o.maxCalls, DefaultMaxCalls)]

\* ntil with the two tests in the other order: a missing performer yields a
\* builder before the checker is looked at.
ntilPerformerFirst(checker, performer, success, failure, opts) ==
  IF ~IsFunction(performer)
    THEN [kind |-> "builder", builder |-> chain(checker, performer)]
  ELSE IF ~IsFunction(checker)
    THEN [kind |-> "throw", error |-> Sig]
  ELSE [kind |-> "handler",
        handler |-> HandlerConfig(checker, performer, success, failure,
                                  OptsOrEmpty(opts))]

(***************************************************************************)
(* ntil(checker, performer, success, failure, opts), lines 137-147: what   *)
(* the call does: throw sig, return a new builder, or return a handler.    *)
(***************************************************************************)
ntil(checker, performer, success, failure, opts) ==
  IF ~IsFunction(checker)
    THEN [kind |-> "throw", error |-> Sig]
  ELSE IF ~IsFunction(performer)
    THEN [kind |-> "builder", builder |-> chain(checker, performer)]
  ELSE [kind |-> "handler",
        handler |-> HandlerConfig(checker, performer, success, failure,
                                  OptsOrEmpty(opts))]


(***************************************************************************)
(* The external functions a caller supplies.  A performer is called with   *)
(* the handler's arguments and `next`; what it does with them is one of    *)
(*   sync       calls next(res) before it returns                          *)
(*   later      returns, and calls next(res) in a later turn               *)
(*   raise      throws without calling next                                *)
(*   syncRaise  calls next(res) and then throws (against the calling       *)
(*              convention: it completes the attempt twice)                *)
(***************************************************************************)
Results == {<<>>, <<2>>, <<3>>}

Beh(how, res) == [how |-> how, res |-> res]

PerformerBehaviours(id, args) ==
  CASE id = "myFunc"     -> {Beh("sync", <<args[1] + args[2]>>)}
    [] id = "myFuncLater"-> {Beh("later", <<args[1] + args[2]>>)}
    [] id = "perform"    -> {Beh("sync", <<args[1] + args[2], args[1] - args[2]>>)}
    [] id = "empty"      -> {Beh("sync", <<>>)}
    [] id = "thrower"    -> {Beh("raise", <<>>)}
    [] id = "anon"       -> {Beh(how, res) : how \in {"sync", "later"},
                                             res \in Results}
                            \cup {Beh("raise", <<>>)}
    [] id = "rude"       -> {Beh("syncRaise", res) : res \in Results}
                            \cup {Beh("sync", <<3>>)}

\* The performers that keep the calling convention of README lines 43-46.
KeepsConvention(id) == id # "rude"

\* What a checker returns for a result, as the JavaScript value it returns;
\* "raise" when it throws instead.
CheckerReturn(id, res) ==
  CASE id = "isThree"  -> IF Len(res) >= 1 /\ res[1] = 3 THEN "true" ELSE "false"
    [] id = "addSub"   -> IF Len(res) >= 2 /\ res[1] = 3 /\ res[2] = 1
                            THEN "true" ELSE "false"
    [] id = "oneIfThree" -> IF Len(res) >= 1 /\ res[1] = 3 THEN "1" ELSE "0"
    [] id = "yesIfThree" -> IF Len(res) >= 1 /\ res[1] = 3 THEN "'yes'" ELSE "''"
    [] id = "always"   -> "true"
    [] id = "needsResult" -> IF Len(res) = 0 THEN "raise"
                             ELSE IF res[1] = 3 THEN "true" ELSE "false"
    [] id = "throwsOnTwo" -> IF Len(res) >= 1 /\ res[1] = 2 THEN "raise"
                             ELSE IF Len(res) >= 1 /\ res[1] = 3 THEN "true"
                             ELSE "false"

Truthy(v) == v \in {"true", "1", "'yes'"}

\* A success or failure callback: "cb" returns, "cbRaise" throws.
Raises(cb) == cb.id = "cbRaise"

(***************************************************************************)
(* The state of one handler invocation.  e is the closure of lines         *)
(* 148-150 (args, wait, calls); r is what the invocation has done so far,  *)
(* as its environment sees it: timers and deferred completions pending,    *)
(* calls of the performer, of the callbacks and of the logger.             *)
(***************************************************************************)
NewEnv(args, waitSecs) == [args |-> args, wait |-> waitSecs, calls |-> 0]

NoEnv == [args |-> <<>>, wait |-> 0, calls |-> 0]

IdleRun ==
  [h |-> 0, started |-> FALSE,
   timers |-> 0, pending |-> <<>>,
   given |-> <<>>, perf |-> 0, lastHow |-> "none",
   checked |-> 0, trueVerdicts |-> 0, rejected |-> 0,
   lastResult |-> <<>>, lastVerdict |-> "none",
   lastAccepted |-> <<>>, lastRejected |-> <<>>,
   accepted |-> 0, exhaustedAt |-> <<>>,
   succ |-> 0, succArgs |-> <<>>, fail |-> 0, failArgs |-> <<>>,
   delays |-> <<>>, log |-> <<>>,
   threw |-> FALSE, uncaught |-> 0]

LogLine(lvl, msg, n, w) == [lvl |-> lvl, msg |-> msg, n |-> n, w |-> w]

\* `if (logger) logger.<lvl>(...)`
Log(cfg, s, line) ==
  IF cfg.logger THEN [s EXCEPT !.r.log = Append(@, line)] ELSE s

Ret(s, raised) == [s |-> s, raised |-> raised]

\* Acceptance by truthiness instead of identity with true.
IsAcceptedTruthy(v) == Truthy(v)

\* line 154: checker.apply(checker, result) === true
IsAccepted(v) == v = "true"

\* lines 155-156: the accepted branch
Accept(cfg, s, result) ==
  LET s1 == Log(cfg, [s EXCEPT !.r.accepted = @ + 1],
                LogLine("info", "success", 0, 0))
  IN  IF IsFunction(cfg.success)
        THEN Ret([s1 EXCEPT !.r.succ = @ + 1, !.r.succArgs = result],
                 Raises(cfg.success))
        ELSE Ret(s1, FALSE)

\* Retry with the wait grown before the timer is set.
RetryGrowFirst(cfg, s) ==
  LET s1 == Log(cfg, s, LogLine("warn", "trying again", s.e.calls, s.e.wait))
      w  == s.e.wait * cfg.waitMult
  IN  [s1 EXCEPT !.r.timers = @ + 1,
                 !.r.delays = Append(@, w),
                 !.e.wait = w]

\* Retry that logs and grows the wait but sets no timer.
RetryNoTimer(cfg, s) ==
  LET s1 == Log(cfg, s, LogLine("warn", "trying again", s.e.calls, s.e.wait))
  IN  [s1 EXCEPT !.e.wait = @ * cfg.waitMult]

\* lines 160-164: log, schedule invoke() after wait seconds, then grow wait
Retry(cfg, s) ==
  LET s1 == Log(cfg, s, LogLine("warn", "trying again", s.e.calls, s.e.wait))
  IN  [s1 EXCEPT !.r.timers = @ + 1,
                 !.r.delays = Append(@, s.e.wait),
                 !.e.wait = @ * cfg.waitMult]

\* Exhaust calling failure() with no result values.
ExhaustNoResult(cfg, s, result) ==
  LET s1 == Log(cfg, [s EXCEPT !.r.exhaustedAt = Append(@, s.e.calls)],
                LogLine("warn", "too many failures", s.e.calls, 0))
  IN  IF IsFunction(cfg.failure)
        THEN Ret([s1 EXCEPT !.r.fail = @ + 1, !.r.failArgs = <<>>],
                 Raises(cfg.failure))
        ELSE Ret(s1, FALSE)

\* Exhaust calling failure without testing that it is a function: the call
\* of an omitted failure throws.
ExhaustUnguarded(cfg, s, result) ==
  LET s1 == Log(cfg, [s EXCEPT !.r.exhaustedAt = Append(@, s.e.calls)],
                LogLine("warn", "too many failures", s.e.calls, 0))
  IN  IF IsFunction(cfg.failure)
        THEN Ret([s1 EXCEPT !.r.fail = @ + 1, !.r.failArgs = result],
                 Raises(cfg.failure))
        ELSE Ret(s1, TRUE)

\* lines 166-167: too many failures
Exhaust(cfg, s, result) ==
  LET s1 == Log(cfg, [s EXCEPT !.r.exhaustedAt = Append(@, s.e.calls)],
                LogLine("warn", "too many failures", s.e.calls, 0))
  IN  IF IsFunction(cfg.failure)
        THEN Ret([s1 EXCEPT !.r.fail = @ + 1, !.r.failArgs = result],
                 Raises(cfg.failure))
        ELSE Ret(s1, FALSE)

\* Reject comparing with <= : one retry too many.
RejectOffByOne(cfg, s, result) ==
  LET s1 == [s EXCEPT !.e.calls = @ + 1]
  IN  IF s1.e.calls <= cfg.maxCalls
        THEN Ret(Retry(cfg, s1), FALSE)
        ELSE Exhaust(cfg, s1, result)

\* lines 158-168: the rejected branch
Reject(cfg, s, result) ==
  LET s1 == [s EXCEPT !.e.calls = @ + 1]
  IN  IF s1.e.calls < cfg.maxCalls
        THEN Ret(Retry(cfg, s1), FALSE)
        ELSE Exhaust(cfg, s1, result)

(***************************************************************************)
(* next(...result), lines 152-170.  The value is the state after the call  *)
(* and whether the call threw (the checker or a callback threw).           *)
(***************************************************************************)
next(cfg, s, result) ==
  LET v  == CheckerReturn(cfg.checker.id, result)
      s1 == [s EXCEPT !.r.checked = @ + 1,
                      !.r.trueVerdicts = @ + IF v = "true" THEN 1 ELSE 0,
                      !.r.rejected = @ + IF v \in {"true", "raise"} THEN 0 ELSE 1,
                      !.r.lastResult = result, !.r.lastVerdict = v,
                      !.r.lastAccepted = IF v = "true" THEN result ELSE @,
                      !.r.lastRejected = IF v \in {"true", "raise"}
                                           THEN @ ELSE result]
  IN  IF v = "raise" THEN Ret(s1, TRUE)
      ELSE IF IsAccepted(v) THEN Accept(cfg, s1, result)
      ELSE Reject(cfg, s1, result)

\* A catch block that counts the exception as a rejection of its own before
\* it calls next().
CatchCounts(cfg, s) ==
  next(cfg, Log(cfg, [s EXCEPT !.e.calls = @ + 1],
                LogLine("warn", "exception", 0, 0)), <<>>)

\* A catch block that logs the exception and does not call next().
CatchSwallow(cfg, s) ==
  Ret(Log(cfg, s, LogLine("warn", "exception", 0, 0)), FALSE)

\* lines 175-178: the catch block of invoke
Catch(cfg, s) ==
  next(cfg, Log(cfg, s, LogLine("warn", "exception", 0, 0)), <<>>)

\* invoke with `finally` for `catch`: next() is called after every attempt.
invokeFinally(cfg, s, beh) ==
  LET s1 == [s EXCEPT !.r.perf = @ + 1, !.r.lastHow = beh.how]
  IN  CASE beh.how = "later" ->
             Catch(cfg, [s1 EXCEPT !.r.pending = Append(@, beh.res)])
        [] beh.how = "sync" -> Catch(cfg, next(cfg, s1, beh.res).s)
        [] beh.how = "raise" -> Catch(cfg, s1)
        [] beh.how = "syncRaise" -> Catch(cfg, next(cfg, s1, beh.res).s)

(***************************************************************************)
(* invoke(), lines 172-179, with the performer behaving as beh.  An        *)
(* exception thrown under performer.apply, by the performer itself or by   *)
(* a next() it called before returning, reaches the catch block.           *)
(***************************************************************************)
invoke(cfg, s, beh) ==
  LET s1 == [s EXCEPT !.r.perf = @ + 1, !.r.lastHow = beh.how]
  IN  CASE beh.how = "later" ->
             Ret([s1 EXCEPT !.r.pending = Append(@, beh.res)], FALSE)
        [] beh.how = "sync" ->
             LET n == next(cfg, s1, beh.res)
             IN  IF n.raised THEN Catch(cfg, n.s) ELSE n
        [] beh.how = "raise" -> Catch(cfg, s1)
        [] beh.how = "syncRaise" -> Catch(cfg, next(cfg, s1, beh.res).s)


(***************************************************************************)
(* The state.                                                              *)
(***************************************************************************)
VARIABLES
  heap,   \* the objects ntil() has returned so far: builders and handlers
  told,   \* per object, what its caller has passed it (a builder: the last
          \* argument of each setter; a handler: the arguments of the call
          \* that made it)
  ret,    \* what the last construction call did
  runs,   \* per handler invocation, what it has done so far (IdleRun if none)
  env     \* the closures of the handler invocations

vars == <<heap, told, ret, runs, env>>

Run == 1..MaxRuns

\* Each call of a handler allocates its own closure (lines 147-150).  The
\* variant keeps args, wait and calls in the scope of ntil() instead, where
\* every call of the handler shares them.
EnvOfShared(i) == 1

EnvOf(i) == i

Load(i) == [r |-> runs[i], e |-> env[EnvOf(i)]]

Store(i, s) ==
  /\ runs' = [runs EXCEPT ![i] = s.r]
  /\ env' = [env EXCEPT ![EnvOf(i)] = s.e]

ConfigOf(i) == heap[runs[i].h].handler

Args == {<<a, b>> : a \in 1..MaxArg, b \in 1..MaxArg}

RemoveAt(seq, k) == SubSeq(seq, 1, k - 1) \o SubSeq(seq, k + 1, Len(seq))

(***************************************************************************)
(* handler(a, b), lines 147-183: a new closure, then invoke().  An         *)
(* exception that leaves invoke() is thrown to the caller of the handler.  *)
(***************************************************************************)
CallStep(cfg, h, args, beh) ==
  LET s0 == [r |-> [IdleRun EXCEPT !.h = h, !.started = TRUE,
                                   !.given = args],
             e |-> NewEnv(args, cfg.waitSecs)]
      n  == invoke(cfg, s0, beh)
  IN  [n.s EXCEPT !.r.threw = n.raised]

Call(i, h, args) ==
  /\ ~runs[i].started
  /\ \A j \in Run : j < i => runs[j].started
  /\ h \in 1..Len(heap) /\ heap[h].kind = "handler"
  /\ \E beh \in PerformerBehaviours(heap[h].handler.performer.id, args) :
       Store(i, CallStep(heap[h].handler, h, args, beh))
  /\ UNCHANGED <<heap, told, ret>>

(***************************************************************************)
(* A retry timer fires: the function of lines 161-163 calls invoke().  An  *)
(* exception that leaves it is uncaught in the event loop.                 *)
(***************************************************************************)
TimerStep(cfg, s, beh) ==
  LET n == invoke(cfg, [s EXCEPT !.r.timers = @ - 1], beh)
  IN  [n.s EXCEPT !.r.uncaught = @ + IF n.raised THEN 1 ELSE 0]

TimerFire(i) ==
  /\ runs[i].started /\ runs[i].timers > 0
  /\ \E beh \in PerformerBehaviours(ConfigOf(i).performer.id, Load(i).e.args) :
       Store(i, TimerStep(ConfigOf(i), Load(i), beh))
  /\ UNCHANGED <<heap, told, ret>>

(***************************************************************************)
(* A performer that returned without completing now calls next(res), for   *)
(* the k-th of the completions in flight.  An exception that leaves next() *)
(* is uncaught: invoke()'s try block was left when the performer returned. *)
(***************************************************************************)
CompleteStep(cfg, s, k) ==
  LET n == next(cfg, [s EXCEPT !.r.pending = RemoveAt(@, k)], s.r.pending[k])
  IN  [n.s EXCEPT !.r.uncaught = @ + IF n.raised THEN 1 ELSE 0]

Complete(i) ==
  /\ runs[i].started
  /\ \E k \in 1..Len(runs[i].pending) :
       Store(i, CompleteStep(ConfigOf(i), Load(i), k))
  /\ UNCHANGED <<heap, told, ret>>

(***************************************************************************)
(* The handlers the behaviours start from: every handler is the value of a *)
(* call ntil(checker, performer, success, failure, opts).                  *)
(***************************************************************************)
Options(logger, waitSecs, waitMult, maxCalls) ==
  Obj([name |-> <<>>, logger |-> logger, waitSecs |-> waitSecs,
       waitMult |-> waitMult, maxCalls |-> maxCalls])

Checkers == {Fn("isThree"), Fn("addSub"), Fn("oneIfThree"), Fn("yesIfThree"),
             Fn("always"), Fn("needsResult")}

Performers == {Fn("myFunc"), Fn("myFuncLater"), Fn("perform"), Fn("empty"),
               Fn("thrower"), Fn("anon"), Fn("rude")}

Callbacks == {Undef, Fn("cb"), Fn("cbRaise")}

OptionValues ==
  {Undef,
   Options(TRUE, <<>>, <<>>, <<>>),
   Options(TRUE, <<2>>, <<1>>, <<3>>),
   Options(FALSE, <<3>>, <<3>>, <<2>>),
   Options(FALSE, <<>>, <<>>, <<1>>),
   Options(FALSE, <<>>, <<>>, <<0>>),
   Options(FALSE, <<0>>, <<0>>, <<-1>>)}

\* the arguments of the calls of ntil() that make the handlers: every
\* combination of the values above, a checker that throws on a result of 2
\* with the README's performer, completing at once or later, and the
\* README's handler made with a function in the place of the options
HandlerArgs ==
  {<<c, p, s, f, o>> : c \in Checkers, p \in Performers,
                       s \in Callbacks, f \in Callbacks, o \in OptionValues}
  \cup
  {<<Fn("throwsOnTwo"), p, s, f, o>> :
     p \in {Fn("myFunc"), Fn("myFuncLater")},
     s \in Callbacks, f \in Callbacks, o \in OptionValues}
  \cup
  {<<Fn("isThree"), Fn("myFunc"), Fn("cb"), Fn("cb"), o>> :
     o \in {Fn("cb"), Fn("anon")}}

Handlers == {ntil(a[1], a[2], a[3], a[4], a[5]) : a \in HandlerArgs}

NoRet == [kind |-> "none", via |-> "none", checkerOk |-> TRUE, ref |-> 0]

\* what the caller passed to a construction call that returned an object
Told(by, checker, perform, success, failure, opts) ==
  [by |-> by, checker |-> checker, perform |-> perform,
   success |-> success, failure |-> failure, opts |-> opts]

Init ==
  /\ \E a \in HandlerArgs :
       /\ heap = <<ntil(a[1], a[2], a[3], a[4], a[5])>>
       /\ told = <<Told("ntil", a[1], a[2], a[3], a[4], a[5])>>
  /\ ret = NoRet
  /\ runs = [i \in Run |-> IdleRun]
  /\ env = [i \in Run |-> NoEnv]

\* One invocation of one handler, for every handler of Handlers.
Next ==
  \/ \E args \in Args : Call(1, 1, args)
  \/ TimerFire(1)
  \/ Complete(1)

Spec == Init /\ [][Next]_vars

(***************************************************************************)
(* Several invocations of one handler in progress at once, their turns     *)
(* interleaved in every order.                                             *)
(***************************************************************************)
\* the calls of the README's examples: handler(1, 1), handler(1, 2),
\* handler(2, 1)
ConcurrentArgs == {<<1, 1>>, <<1, 2>>, <<2, 1>>}

ConcurrentHandlers ==
  {ntil(Fn("isThree"), Fn("myFunc"), Fn("cb"), Fn("cb"),
        Options(TRUE, <<>>, <<>>, <<>>)),
   ntil(Fn("addSub"), Fn("perform"), Fn("cb"), Fn("cb"),
        Options(TRUE, <<2>>, <<1>>, <<3>>)),
   ntil(Fn("addSub"), Fn("perform"), Fn("cb"), Fn("cb"), Undef),
   ntil(Fn("isThree"), Fn("anon"), Fn("cb"), Fn("cb"),
        Options(FALSE, <<3>>, <<3>>, <<2>>))}
  \cup
  {ntil(c, p, Fn("cb"), f, Options(FALSE, <<3>>, <<3>>, <<2>>)) :
     c \in {Fn("isThree"), Fn("needsResult")},
     p \in {Fn("myFuncLater"), Fn("thrower")},
     f \in {Fn("cb"), Fn("cbRaise")}}

InitConcurrent ==
  /\ \E h \in ConcurrentHandlers : heap = <<h>>
  /\ told = <<>>
  /\ ret = NoRet
  /\ runs = [i \in Run |-> IdleRun]
  /\ env = [i \in Run |-> NoEnv]

NextConcurrent ==
  \/ \E i \in Run, args \in ConcurrentArgs : Call(i, 1, args)
  \/ \E i \in Run : TimerFire(i)
  \/ \E i \in Run : Complete(i)

ConcurrentSpec == InitConcurrent /\ [][NextConcurrent]_vars


(***************************************************************************)
(* Construction.  The caller calls ntil() directly, or calls the setters   *)
(* and func() of a builder it holds; told records what the caller passed,  *)
(* apart from what the objects hold.                                       *)
(***************************************************************************)
\* what a construction call did, for the caller
Returned(via, checker, res, ref) ==
  [kind |-> res.kind, via |-> via, checkerOk |-> IsFunction(checker),
   ref |-> IF res.kind = "throw" \/ ref > MaxObjects THEN 0 ELSE ref]

\* the heap object a construction result is
ObjectOf(res) ==
  IF res.kind = "builder"
    THEN [kind |-> "builder", builder |-> res.builder]
    ELSE [kind |-> "handler", handler |-> res.handler]

\* ntil(checker, performer, success, failure, opts) called by the caller
Construct(checker, performer, success, failure, opts) ==
  LET res == ntil(checker, performer, success, failure, opts)
      ref == Len(heap) + 1
  IN  /\ Len(heap) < MaxObjects
      /\ ret' = Returned("ntil", checker, res, ref)
      /\ IF res.kind = "throw"
           THEN UNCHANGED <<heap, told>>
           ELSE /\ heap' = Append(heap, ObjectOf(res))
                /\ told' = Append(told,
                     IF res.kind = "builder"
                       THEN Told("ntil", checker, Undef, Undef, Undef, performer)
                       ELSE Told("ntil", checker, performer, success,
                                 failure, opts))
      /\ UNCHANGED <<runs, env>>

\* line 128: this.opts = function(options) { opts = options; return this }
chainOpts(b, options) == [b EXCEPT !.opts = options]

\* line 129: this.exec = function(perform) { this.perform = perform; ... }
chainExec(b, perform) == [b EXCEPT !.perform = perform]

\* line 130: this.done = function(success) { this.success = success; ... }
chainDone(b, success) == [b EXCEPT !.success = success]

\* fail() storing its argument in the slot and clearing the success slot
chainFailClobber(b, failure) ==
  [b EXCEPT !.failure = failure, !.success = Undef]

\* line 131: this.fail = function(failure) { this.failure = failure; ... }
chainFail(b, failure) == [b EXCEPT !.failure = failure]

\* func() supplying a performer that only calls next() when exec() has
\* supplied none
chainFuncDefaultPerformer(b) ==
  ntil(b.checker, IF IsFunction(b.perform) THEN b.perform ELSE Fn("empty"),
       b.success, b.failure, b.opts)

\* func() passing failure where success belongs and success where failure
chainFuncSwapped(b) == ntil(b.checker, b.perform, b.failure, b.success, b.opts)

\* lines 132-134: this.func
chainFunc(b) == ntil(b.checker, b.perform, b.success, b.failure, b.opts)

IsBuilder(k) == k \in 1..Len(heap) /\ heap[k].kind = "builder"

\* A setter whose builder shares its success and failure slots with the
\* handlers already made: a handler that reads the slots when it runs.
SetterShared(k, after, toldAfter) ==
  /\ IsBuilder(k)
  /\ heap' = [j \in DOMAIN heap |->
               IF j = k THEN [heap[k] EXCEPT !.builder = after]
               ELSE IF heap[j].kind = "handler"
                 THEN [heap[j] EXCEPT !.handler.success = after.success,
                                      !.handler.failure = after.failure]
               ELSE heap[j]]
  /\ told' = [told EXCEPT ![k] = toldAfter]
  /\ ret' = [kind |-> "builder", via |-> "setter", checkerOk |-> TRUE, ref |-> k]
  /\ UNCHANGED <<runs, env>>

\* `return this`: a setter returns the builder it was called on
Setter(k, after, toldAfter) ==
  /\ IsBuilder(k)
  /\ heap' = [heap EXCEPT ![k].builder = after]
  /\ told' = [told EXCEPT ![k] = toldAfter]
  /\ ret' = [kind |-> "builder", via |-> "setter", checkerOk |-> TRUE, ref |-> k]
  /\ UNCHANGED <<runs, env>>

SetOpts(k, v) ==
  Setter(k, chainOpts(heap[k].builder, v), [told[k] EXCEPT !.opts = v])

SetExec(k, v) ==
  Setter(k, chainExec(heap[k].builder, v), [told[k] EXCEPT !.perform = v])

SetDone(k, v) ==
  Setter(k, chainDone(heap[k].builder, v), [told[k] EXCEPT !.success = v])

SetFail(k, v) ==
  Setter(k, chainFail(heap[k].builder, v), [told[k] EXCEPT !.failure = v])

\* builder.func() called by the caller
Func(k) ==
  /\ IsBuilder(k)
  /\ LET res == chainFunc(heap[k].builder)
         ref == Len(heap) + 1
         t   == told[k]
     IN  /\ ret' = Returned("func", heap[k].builder.checker, res, ref)
         /\ IF res.kind = "throw" \/ Len(heap) >= MaxObjects
              THEN UNCHANGED <<heap, told>>
              ELSE /\ heap' = Append(heap, ObjectOf(res))
                   /\ told' = Append(told,
                        IF res.kind = "builder"
                          THEN Told("func", t.checker, Undef, Undef, Undef,
                                    t.perform)
                          ELSE Told("func", t.checker, t.perform, t.success,
                                    t.failure, t.opts))
  /\ UNCHANGED <<runs, env>>

BuildCheckers == {Fn("isThree"), Undef, Num(3)}

\* the options argument of ntil() and of opts()
BuildOptions == {Undef, Options(TRUE, <<2>>, <<1>>, <<3>>)}

\* the second argument of ntil(): a performer, nothing, or an options object
BuildSeconds == {Fn("myFunc"), Undef, Options(FALSE, <<>>, <<>>, <<1>>)}

\* the argument of exec()
BuildPerformers == {Fn("myFunc"), Undef}

BuildSuccess == {Undef, Fn("cb")}

BuildFailure == {Undef, Fn("cbRaise")}

InitBuild ==
  /\ heap = <<>>
  /\ told = <<>>
  /\ ret = NoRet
  /\ runs = [i \in Run |-> IdleRun]
  /\ env = [i \in Run |-> NoEnv]

NextBuild ==
  \/ \E c \in BuildCheckers, p \in BuildSeconds, s \in BuildSuccess,
        f \in BuildFailure, o \in BuildOptions : Construct(c, p, s, f, o)
  \/ \E k \in 1..MaxObjects, v \in BuildOptions : SetOpts(k, v)
  \/ \E k \in 1..MaxObjects, v \in BuildPerformers : SetExec(k, v)
  \/ \E k \in 1..MaxObjects, v \in BuildSuccess : SetDone(k, v)
  \/ \E k \in 1..MaxObjects, v \in BuildFailure : SetFail(k, v)
  \/ \E k \in 1..MaxObjects : Func(k)

BuildSpec == InitBuild /\ [][NextBuild]_vars

(***************************************************************************)
(* A builder in use: the caller holds the builder ntil(checker, options)   *)
(* returned, calls its setters and func() in any order, and calls the      *)
(* handlers func() returns, before and after it changes the builder again. *)
(***************************************************************************)
FirstOptions == Options(FALSE, <<>>, <<>>, <<1>>)

LaterOptions == Options(TRUE, <<2>>, <<1>>, <<2>>)

BuildRunPerformers == {Fn("myFunc"), Fn("myFuncLater")}

BuildRunArgs == {<<1, 1>>, <<1, 2>>}

InitBuildRun ==
  /\ heap = <<ObjectOf(ntil(Fn("isThree"), FirstOptions, Undef, Undef, Undef))>>
  /\ told = <<Told("ntil", Fn("isThree"), Undef, Undef, Undef, FirstOptions)>>
  /\ ret = NoRet
  /\ runs = [i \in Run |-> IdleRun]
  /\ env = [i \in Run |-> NoEnv]

NextBuildRun ==
  \/ \E k \in 1..MaxObjects : SetOpts(k, LaterOptions)
  \/ \E k \in 1..MaxObjects, v \in BuildRunPerformers : SetExec(k, v)
  \/ \E k \in 1..MaxObjects : SetDone(k, Fn("cb"))
  \/ \E k \in 1..MaxObjects : SetFail(k, Fn("cb"))
  \/ \E k \in 1..MaxObjects : Func(k)
  \/ \E h \in 1..MaxObjects, args \in BuildRunArgs : Call(1, h, args)
  \/ TimerFire(1)
  \/ Complete(1)

BuildRunSpec == InitBuildRun /\ [][NextBuildRun]_vars

(***************************************************************************)
(* One invocation whose timers fire and whose deferred completions arrive: *)
(* the event loop runs every timer that is due, and a performer that keeps *)
(* its promise to complete calls next in some later turn.                  *)
(***************************************************************************)
LiveHandlers ==
  {h \in Handlers :
     h.handler.performer.id \in {"anon", "rude"}
       => h.handler.maxCalls <= 3 /\ ~h.handler.logger}

InitLive ==
  /\ \E h \in LiveHandlers : heap = <<h>>
  /\ told = <<>>
  /\ ret = NoRet
  /\ runs = [i \in Run |-> IdleRun]
  /\ env = [i \in Run |-> NoEnv]

LiveSpec ==
  InitLive /\ [][Next]_vars /\ WF_vars(TimerFire(1)) /\ WF_vars(Complete(1))

(***************************************************************************)
(* Properties.                                                             *)
(***************************************************************************)
Started == {i \in Run : runs[i].started}

Closure(i) == env[EnvOf(i)]

RECURSIVE Pow(_, _)
Pow(b, n) == IF n = 0 THEN 1 ELSE b * Pow(b, n - 1)

\* nothing is scheduled or in flight
Quiet(i) == runs[i].timers = 0 /\ runs[i].pending = <<>>

\* C2 as stated: every exhaustion happens with attemptCount equal to
\* maxAttempts, for every configured maxAttempts.
C2_ExhaustionOnlyAtMax ==
  \A i \in Started : \A k \in 1..Len(runs[i].exhaustedAt) :
    runs[i].exhaustedAt[k] = ConfigOf(i).maxCalls

\* C2 amended: no exhaustion happens while attemptCount is below maxAttempts;
\* with maxAttempts >= 1 the first exhaustion happens with attemptCount equal
\* to maxAttempts, and as soon as attemptCount has reached maxAttempts; with
\* maxAttempts < 1 the first rejection exhausts, with attemptCount 1.
C2_FirstExhaustionAtMax ==
  \A i \in Started :
    LET x == runs[i].exhaustedAt
        m == ConfigOf(i).maxCalls
        c == Closure(i).calls
    IN  /\ \A k \in 1..Len(x) : x[k] >= m
        /\ x # <<>> => x[1] = IF m >= 1 THEN m ELSE 1
        /\ (c >= 1 /\ c >= m) => x # <<>>
        /\ x = <<>> => c < m \/ c = 0

C2_Witness ==
  \E i \in Started :
    /\ ConfigOf(i).maxCalls = 3
    /\ runs[i].exhaustedAt = <<3>>
    /\ runs[i].fail = 1

\* C3: attemptCount equals the number of rejected results so far, the k-th
\* delay is set at the k-th rejection and is waitSecs * waitMult^(k-1), and
\* every performer invocation after the first follows one of these delays.
C3_BackoffSchedule ==
  \A i \in Started :
    LET cfg == ConfigOf(i)
        d   == runs[i].delays
    IN  /\ Closure(i).calls = runs[i].rejected
        /\ \A k \in 1..Len(d) : d[k] = cfg.waitSecs * Pow(cfg.waitMult, k - 1)
        /\ Len(d) = IF runs[i].exhaustedAt = <<>>
                      THEN runs[i].rejected
                      ELSE runs[i].exhaustedAt[1] - 1
        /\ runs[i].perf + runs[i].timers = Len(d) + 1
        /\ (cfg.waitSecs = DefaultWaitSecs /\ cfg.waitMult = DefaultWaitMult
            /\ cfg.maxCalls = DefaultMaxCalls)
             => d = SubSeq(<<1, 2, 4, 8, 16, 32>>, 1, Len(d))

C3_Witness ==
  \E i \in Started :
    /\ runs[i].delays = <<1, 2, 4, 8, 16, 32>>
    /\ runs[i].perf = 7
    /\ Closure(i).calls = 7

\* C4: only the verdict true accepts.  Every other verdict, truthy ones
\* included, increments attemptCount, and success is invoked at most once
\* per true verdict: never by a checker that returns 1 or a string.
C4_StrictTrueOnly ==
  \A i \in Started :
    /\ Closure(i).calls = runs[i].rejected
    /\ runs[i].accepted = runs[i].trueVerdicts
    /\ runs[i].succ <= runs[i].trueVerdicts
    /\ ConfigOf(i).checker.id \in {"oneIfThree", "yesIfThree"}
         => runs[i].succ = 0 /\ runs[i].accepted = 0

C4_Witness ==
  \E i \in Started :
    /\ runs[i].lastVerdict \in {"1", "'yes'"}
    /\ runs[i].lastResult = <<3>>
    /\ Closure(i).calls >= 1
    /\ runs[i].succ = 0


\* a step in which run i called its performer and the performer threw
\* without calling next
PerformerRaised(i) ==
  /\ runs'[i].perf = runs[i].perf + 1
  /\ runs'[i].lastHow = "raise"

\* C5 as stated: whenever the performer raises, attemptCount increases by
\* exactly 1 and success is not invoked, for every checker.
C5_RaiseRejectedForEveryChecker ==
  [][\A i \in Run :
       PerformerRaised(i) =>
         /\ Closure(i)'.calls = Closure(i).calls + 1
         /\ runs'[i].succ = runs[i].succ]_vars

\* C5 amended: whenever the performer raises, the exception is logged (with
\* a logger) and the checker is evaluated once, on the empty result.  If it
\* returns a value other than true, attemptCount increases by exactly 1,
\* success is not invoked and the sequence retries or exhausts; if it returns
\* true the invocation is accepted and success receives no values; if it
\* throws, the exception leaves the handler and attemptCount is unchanged.
C5_RaiseIsEmptyResult ==
  [][\A i \in Run :
       PerformerRaised(i) =>
         LET r == runs[i]
             q == runs'[i]
             cfg == heap[q.h].handler
             n == Len(r.log)
         IN  /\ q.checked = r.checked + 1
             /\ q.lastResult = <<>>
             /\ q.lastVerdict = CheckerReturn(cfg.checker.id, <<>>)
             /\ cfg.logger => Len(q.log) >= n + 1 /\ q.log[n + 1].msg = "exception"
             /\ q.lastVerdict \notin {"true", "raise"} =>
                  /\ Closure(i)'.calls = Closure(i).calls + 1
                  /\ q.succ = r.succ /\ q.accepted = r.accepted
                  /\ \/ /\ Closure(i)'.calls < cfg.maxCalls
                        /\ Len(q.delays) = Len(r.delays) + 1
                        /\ q.exhaustedAt = r.exhaustedAt
                     \/ /\ Closure(i)'.calls >= cfg.maxCalls
                        /\ q.delays = r.delays
                        /\ Len(q.exhaustedAt) = Len(r.exhaustedAt) + 1
             /\ q.lastVerdict = "true" =>
                  /\ Closure(i)'.calls = Closure(i).calls
                  /\ q.accepted = r.accepted + 1
                  /\ IsFunction(cfg.success) =>
                       q.succ = r.succ + 1 /\ q.succArgs = <<>>
             /\ q.lastVerdict = "raise" =>
                  /\ Closure(i)'.calls = Closure(i).calls
                  /\ q.delays = r.delays /\ q.fail = r.fail /\ q.succ = r.succ
                  /\ q.threw \/ q.uncaught = r.uncaught + 1]_vars

C5_Witness ==
  \E i \in Started :
    /\ runs[i].lastHow = "raise"
    /\ runs[i].perf = 2
    /\ runs[i].lastVerdict = "false"
    /\ Closure(i).calls = 2
    /\ runs[i].succ = 0
    /\ runs[i].timers = 1

\* C6: with a performer that keeps the calling convention (it calls next
\* once, or throws instead), an invocation never has more than one attempt
\* in flight or retry timer pending, and every attempt but the one in
\* flight has had its completion processed.
C6_OneAtATime ==
  \A i \in Started :
    KeepsConvention(ConfigOf(i).performer.id) =>
      /\ runs[i].timers + Len(runs[i].pending) <= 1
      /\ runs[i].perf - Len(runs[i].pending) <= runs[i].checked

C6_Witness ==
  \E i \in Started :
    /\ KeepsConvention(ConfigOf(i).performer.id)
    /\ runs[i].perf = 3
    /\ Len(runs[i].pending) = 1
    /\ runs[i].timers = 0
    /\ runs[i].checked = 2

Max(a, b) == IF a >= b THEN a ELSE b

\* C8: success receives the result the checker accepted and failure the
\* last rejected result, once per acceptance and per exhaustion; with
\* maxCalls = 7 an exhaustion follows exactly 6 retries and an acceptance of
\* the first result follows none; the README's handler ends with failure(2)
\* after 7 performer calls for (1, 1) and success(3) after one for (1, 2).
C8_CallbackArguments ==
  \A i \in Started :
    LET cfg == ConfigOf(i)
        r   == runs[i]
        sum == r.given[1] + r.given[2]
    IN  /\ r.succ > 0 => r.succArgs = r.lastAccepted
        /\ r.fail > 0 => r.failArgs = r.lastRejected
        /\ IsFunction(cfg.success) => r.succ = r.accepted
        /\ IsFunction(cfg.failure) => r.fail = Len(r.exhaustedAt)
        /\ (cfg.maxCalls = 7 /\ r.exhaustedAt # <<>>) => Len(r.delays) = 6
        /\ (r.accepted >= 1 /\ r.rejected = 0) => r.delays = <<>>
        /\ ( /\ cfg.checker = Fn("isThree")
             /\ cfg.performer \in {Fn("myFunc"), Fn("myFuncLater")}
             /\ cfg.success = Fn("cb") /\ cfg.failure = Fn("cb")
             /\ Quiet(i) )
           => IF sum = 3
                THEN /\ r.succ = 1 /\ r.succArgs = <<3>> /\ r.fail = 0
                     /\ r.perf = 1 /\ r.delays = <<>>
                ELSE /\ r.fail = 1 /\ r.failArgs = <<sum>> /\ r.succ = 0
                     /\ r.perf = Max(cfg.maxCalls, 1)
                     /\ Len(r.delays) = Max(cfg.maxCalls, 1) - 1

C8_Witness ==
  \E i \in Started :
    /\ ConfigOf(i).checker = Fn("isThree")
    /\ ConfigOf(i).performer = Fn("myFunc")
    /\ ConfigOf(i).maxCalls = 7
    /\ runs[i].given = <<1, 1>>
    /\ runs[i].fail = 1 /\ runs[i].failArgs = <<2>>
    /\ runs[i].delays = <<1, 2, 4, 8, 16, 32>>
    /\ runs[i].perf = 7


\* a performer whose behaviour is a function of its arguments
Deterministic(id, args) == Cardinality(PerformerBehaviours(id, args)) = 1

TheBehaviour(id, args) == CHOOSE beh \in PerformerBehaviours(id, args) : TRUE

\* The states an invocation passes through when it runs alone: from s, the
\* deferred completion or the timer it waits for, until nothing is left.
RECURSIVE SoloStates(_, _)
SoloStates(cfg, s) ==
  {s} \cup
  IF s.r.pending # <<>> THEN SoloStates(cfg, CompleteStep(cfg, s, 1))
  ELSE IF s.r.timers > 0
    THEN SoloStates(cfg, TimerStep(cfg, s,
                     TheBehaviour(cfg.performer.id, s.e.args)))
  ELSE {}

Solo(cfg, h, args) ==
  SoloStates(cfg, CallStep(cfg, h, args, TheBehaviour(cfg.performer.id, args)))

\* C7, the state part: every invocation holds the arguments it was called
\* with, and with a deterministic performer its counters, delays and outcome
\* are at every moment those of the same invocation run alone.
C7_AsWhenAlone ==
  \A i \in Started :
    /\ Closure(i).args = runs[i].given
    /\ Deterministic(ConfigOf(i).performer.id, runs[i].given)
         => Load(i) \in Solo(ConfigOf(i), runs[i].h, runs[i].given)

\* C7, the step part: a step of one invocation changes neither what another
\* invocation has done nor its attemptCount, currentWaitSeconds and
\* capturedArgs.
C7_StepsAreLocal ==
  \A i \in Run, j \in Run :
    (i # j /\ runs'[i] # runs[i]) =>
      /\ runs'[j] = runs[j]
      /\ Closure(j)' = Closure(j)

\* C7: interleaved invocations of one handler each own their attemptCount,
\* currentWaitSeconds and capturedArgs, and each proceeds as when run alone.
C7_IndependentInvocations == []C7_AsWhenAlone /\ [][C7_StepsAreLocal]_vars

C7_Witness ==
  \E i \in Started, j \in Started :
    /\ i # j
    /\ runs[i].given # runs[j].given
    /\ Closure(i).calls = 2 /\ runs[i].timers = 1
    /\ Closure(j).calls = 1 /\ runs[j].timers = 1
    /\ Closure(i).wait # Closure(j).wait


\* the accepted branch or the exhausted branch has been taken
Terminal(i) == runs[i].accepted > 0 \/ runs[i].exhaustedAt # <<>>

\* the checker gave no verdict on the last result: it threw
NoVerdict(i) == runs[i].lastVerdict = "raise"

\* C1: once a handler has been called, its invocation eventually takes the
\* accepted or the exhausted branch, whatever verdicts the checker returns,
\* given that timers fire and deferred completions arrive (and unless the
\* checker throws instead of returning a verdict).
C1_EventuallyTerminal ==
  \A i \in Run : runs[i].started ~> (Terminal(i) \/ NoVerdict(i))

C1_Witness ==
  \E i \in Started :
    /\ runs[i].exhaustedAt # <<>>
    /\ runs[i].rejected = 7
    /\ runs[i].perf = 7
    /\ Len(runs[i].delays) = 6
    /\ Quiet(i)


Objects == 1..Len(heap)

\* the direct call with the five values the caller has passed for object k
Direct(k) ==
  ntil(told[k].checker, told[k].perform, told[k].success, told[k].failure,
       told[k].opts)

\* C9: in every state of a builder (after every order of exec, done, fail
\* and opts calls, the options possibly given as the second argument of the
\* call that made it), func() returns what the direct call with the same
\* five values returns, and every handler func() has returned has the
\* configuration, and so the behaviour, of the directly made handler.
C9_FluentEqualsDirect ==
  \A k \in Objects :
    /\ heap[k].kind = "builder" => chainFunc(heap[k].builder) = Direct(k)
    /\ (heap[k].kind = "handler" /\ told[k].by = "func") =>
         /\ Direct(k).kind = "handler"
         /\ heap[k].handler = Direct(k).handler

C9_Witness ==
  \E k \in Objects, b \in Objects :
    /\ heap[b].kind = "builder"
    /\ told[k].by = "func" /\ heap[k].kind = "handler"
    /\ told[k].opts = Options(FALSE, <<>>, <<>>, <<1>>)
    /\ heap[k].handler.maxCalls = 1
    /\ heap[k].handler.performer = Fn("myFunc")
    /\ heap[k].handler.success = Fn("cb")
    /\ heap[k].handler.failure = Fn("cbRaise")

\* C10, the state part: a call of ntil() with a checker that is not callable
\* has thrown, returning no object, and no builder or handler holds a checker
\* that is not callable.
C10_ThrewForBadChecker ==
  /\ (ret.via = "ntil" /\ ~ret.checkerOk) => (ret.kind = "throw" /\ ret.ref = 0)
  /\ \A k \in Objects :
       IF heap[k].kind = "builder"
         THEN IsFunction(heap[k].builder.checker)
         ELSE IsFunction(heap[k].handler.checker)

\* C10, the step part: such a call makes no object and invokes nothing.
C10_BadCheckerDoesNothing ==
  (ret'.via = "ntil" /\ ~ret'.checkerOk) =>
    heap' = heap /\ told' = told /\ runs' = runs /\ env' = env

\* C10: every construction call whose checker is not callable throws,
\* whatever its other arguments are, and returns neither a handler nor a
\* builder and invokes no performer or callback.
C10_NonCallableCheckerThrows ==
  []C10_ThrewForBadChecker /\ [][C10_BadCheckerDoesNothing]_vars

C10_Witness ==
  /\ ret.kind = "throw" /\ ret.via = "ntil" /\ ~ret.checkerOk
  /\ Len(heap) = 1


\* the option fields the caller supplied for object k
SuppliedOptions(k) == OptsOrEmpty(told[k].opts)

\* the value the claim lets a handler use for a number option: the default
\* when the field is absent, the supplied number otherwise
AsSupplied(field, dflt) == IF field = <<>> THEN dflt ELSE field[1]

\* C11: every handler uses for waitSecs, waitMult and maxCalls the default
\* (1, 2, 7) when the option is absent and the supplied number unchanged
\* when it is supplied, 0 included; the first retry delay of its invocations
\* is that waitSecs.
C11_SuppliedValueUsed ==
  /\ \A k \in Objects :
       heap[k].kind = "handler" =>
         LET o   == SuppliedOptions(k)
             cfg == heap[k].handler
         IN  /\ cfg.waitSecs = AsSupplied(o.waitSecs, DefaultWaitSecs)
             /\ cfg.waitMult = AsSupplied(o.waitMult, DefaultWaitMult)
             /\ cfg.maxCalls = AsSupplied(o.maxCalls, DefaultMaxCalls)
  /\ \A i \in Started :
       runs[i].delays # <<>> =>
         runs[i].delays[1] =
           AsSupplied(SuppliedOptions(runs[i].h).waitSecs, DefaultWaitSecs)

\* the results a performer of the model can pass to next for some arguments
PossibleResults ==
  UNION {{beh.res : beh \in PerformerBehaviours(p.id, args)} :
           p \in Performers, args \in Args}

\* a checker that returns a verdict for every result, a callback that
\* returns when it is called
CheckerReturns(c) ==
  \A res \in PossibleResults : CheckerReturn(c.id, res) # "raise"

CallbackReturns(cb) == IsFunction(cb) => ~Raises(cb)

\* the number of "too many failures" lines in a log
RECURSIVE TooManyLines(_)
TooManyLines(log) ==
  IF log = <<>> THEN 0
  ELSE (IF log[1].msg = "too many failures" THEN 1 ELSE 0)
       + TooManyLines(Tail(log))

\* C12 as stated: no call of a handler throws to its caller, and without a
\* logger no log call is made.
C12_NeverRaisesToCaller ==
  \A i \in Started :
    /\ ~runs[i].threw
    /\ ~ConfigOf(i).logger => runs[i].log = <<>>

\* C12 amended: with a checker and callbacks that return normally, no call
\* of a handler throws to its caller and no later turn of the invocation
\* throws either: a performer that throws, a rejection and an exhaustion end
\* in a retry, in the failure callback (once per exhaustion, when one is
\* given) and in a log line (when a logger is given), also when success,
\* failure or logger are omitted; without a logger no log call is made.
C12_OnlyCallbackFaultsEscape ==
  \A i \in Started :
    LET cfg == ConfigOf(i)
        r   == runs[i]
    IN  /\ ~cfg.logger => r.log = <<>>
        /\ cfg.logger => TooManyLines(r.log) = Len(r.exhaustedAt)
        /\ ( /\ CheckerReturns(cfg.checker)
             /\ CallbackReturns(cfg.success)
             /\ CallbackReturns(cfg.failure) )
           => /\ ~r.threw /\ r.uncaught = 0
              /\ r.fail = IF IsFunction(cfg.failure)
                            THEN Len(r.exhaustedAt) ELSE 0
              /\ r.succ = IF IsFunction(cfg.success) THEN r.accepted ELSE 0

C12_Witness ==
  \E i \in Started :
    /\ ConfigOf(i).performer = Fn("thrower")
    /\ ConfigOf(i).success = Undef /\ ConfigOf(i).failure = Undef
    /\ ~ConfigOf(i).logger
    /\ runs[i].exhaustedAt = <<7>>
    /\ runs[i].perf = 7
    /\ ~runs[i].threw /\ runs[i].log = <<>> /\ runs[i].fail = 0

\* the slots of a builder that differ between two of its states
SlotsChanged(b, c) ==
  {x \in {"opts", "perform", "success", "failure"} :
     \/ x = "opts"    /\ b.opts # c.opts
     \/ x = "perform" /\ b.perform # c.perform
     \/ x = "success" /\ b.success # c.success
     \/ x = "failure" /\ b.failure # c.failure}

\* C14, the state part: every slot of a builder holds the value of the last
\* call of its setter (the options those the builder was made with, the
\* other slots undefined, while the setter has not been called), and func()
\* passes exactly these values and the checker to ntil().
C14_SlotsHoldLastValues ==
  \A k \in Objects :
    heap[k].kind = "builder" =>
      LET b == heap[k].builder
      IN  /\ b.checker = told[k].checker
          /\ b.opts = told[k].opts
          /\ b.perform = told[k].perform
          /\ b.success = told[k].success
          /\ b.failure = told[k].failure
          /\ chainFunc(b) = ntil(b.checker, told[k].perform, told[k].success,
                                 told[k].failure, told[k].opts)

\* C14, the step part: a setter call returns the builder it was called on,
\* makes no object, leaves every other object as it was, and changes at most
\* one slot of its builder and never the checker.
C14_SetterChangesOneSlot ==
  ret'.via = "setter" =>
    LET k == ret'.ref
    IN  /\ IsBuilder(k)
        /\ ret'.kind = "builder"
        /\ Len(heap') = Len(heap)
        /\ \A j \in Objects : j # k => heap'[j] = heap[j]
        /\ heap'[k].kind = "builder"
        /\ heap'[k].builder.checker = heap[k].builder.checker
        /\ Cardinality(SlotsChanged(heap[k].builder, heap'[k].builder)) <= 1

\* C14: each setter returns the same builder, changes only its own slot, and
\* the last value set for a slot is the one func() uses.
C14_SettersOverwriteOwnSlot ==
  []C14_SlotsHoldLastValues /\ [][C14_SetterChangesOneSlot]_vars

\* a builder whose options were set, used by func(), and then set again
C14_Witness ==
  \E k \in Objects, j \in Objects :
    /\ heap[k].kind = "builder" /\ ret.via = "setter" /\ ret.ref = k
    /\ heap[k].builder.opts = Undef
    /\ heap[k].builder.perform = Fn("myFunc")
    /\ heap[k].builder.success = Fn("cb")
    /\ heap[k].builder.failure = Fn("cbRaise")
    /\ heap[j].kind = "handler" /\ told[j].by = "func"
    /\ heap[j].handler.logger /\ heap[j].handler.failure = Fn("cbRaise")

HandlerObjects == {k \in 1..Len(heap) : heap[k].kind = "handler"}

\* C13, the step part: func() called on a builder that holds no performer
\* returns what the direct call ntil(checker, <no performer>, success,
\* failure, options) returns for the values the builder was given: a new
\* builder with the checker and with no performer, success or failure.  The
\* call makes no handler and invokes nothing.
C13_FuncWithoutPerformer ==
  \A k \in 1..MaxObjects :
    (IsBuilder(k) /\ ~IsFunction(heap[k].builder.perform) /\ Func(k)) =>
      /\ ret'.via = "func"
      /\ ret'.kind = Direct(k).kind
      /\ ret'.kind = "builder"
      /\ ret'.ref # 0 =>
           /\ heap'[ret'.ref] = ObjectOf(Direct(k))
           /\ heap'[ret'.ref].builder.checker = heap[k].builder.checker
           /\ heap'[ret'.ref].builder.perform = Undef
           /\ heap'[ret'.ref].builder.success = Undef
           /\ heap'[ret'.ref].builder.failure = Undef
      /\ {j \in 1..Len(heap') : heap'[j].kind = "handler"} = HandlerObjects
      /\ runs' = runs /\ env' = env

\* C13, the state part: whatever is invoked is a handler that was made with
\* a performer, and it is the performer it was made with that is called.
C13_InvokedOnlyWithPerformer ==
  \A i \in Started :
    /\ runs[i].h \in HandlerObjects
    /\ IsFunction(told[runs[i].h].perform)
    /\ ConfigOf(i).performer = told[runs[i].h].perform

\* C13: func() without a performer behaves as the direct call without one;
\* it yields no handler, and nothing is invoked as a consequence of it.
C13_NoPerformerNoHandler ==
  []C13_InvokedOnlyWithPerformer /\ [][C13_FuncWithoutPerformer]_vars

\* func() has returned a second builder for a builder whose success and
\* failure were set and whose performer was not
C13_Witness ==
  /\ ret.via = "func" /\ ret.kind = "builder" /\ ret.ref = 2
  /\ heap[1].kind = "builder"
  /\ heap[1].builder.perform = Undef
  /\ heap[1].builder.success = Fn("cb") /\ heap[1].builder.failure = Fn("cb")
  /\ heap[1].builder.opts = LaterOptions
  /\ heap[2].kind = "builder"
  /\ heap[2].builder = chain(Fn("isThree"), Undef)

\* C15, the step part: no step (a setter call, a func() call, a turn of an
\* invocation) changes a handler that exists.
C15_HandlersUnchanged ==
  \A k \in HandlerObjects : heap'[k] = heap[k] /\ told'[k] = told[k]

\* C15, the state part: every handler holds the configuration ntil() derived
\* from the values it was made with, and every invocation, also after later
\* setter and func() calls on the builder, has done what an invocation with
\* that configuration (name, waitSecs, waitMult, maxCalls, performer,
\* success, failure) does.
C15_RunsUseCreationConfig ==
  /\ \A k \in HandlerObjects : heap[k] = ObjectOf(Direct(k))
  /\ \A i \in Started :
       LET made == Direct(runs[i].h).handler
       IN  /\ ConfigOf(i) = made
           /\ Deterministic(made.performer.id, runs[i].given)
           /\ Load(i) \in Solo(made, runs[i].h, runs[i].given)

\* C15: the configuration of a handler is fixed when it is made.
C15_ConfigFrozen ==
  []C15_RunsUseCreationConfig /\ [][C15_HandlersUnchanged]_vars

\* a handler made before the builder's options, performer and failure were
\* set again has been called, and has used what it was made with
C15_Witness ==
  /\ heap[1].kind = "builder"
  /\ heap[1].builder.opts = LaterOptions
  /\ heap[1].builder.perform = Fn("myFuncLater")
  /\ heap[1].builder.failure = Fn("cb")
  /\ 2 \in HandlerObjects
  /\ heap[2].handler.maxCalls = 1
  /\ heap[2].handler.performer = Fn("myFunc")
  /\ heap[2].handler.failure = Undef
  /\ ret.via = "setter"
  /\ runs[1].started /\ runs[1].h = 2 /\ runs[1].given = <<1, 1>>
  /\ runs[1].exhaustedAt = <<1>> /\ runs[1].perf = 1
  /\ runs[1].fail = 0 /\ runs[1].log = <<>>

RECURSIVE Sum(_)
Sum(seq) == IF seq = <<>> THEN 0 ELSE seq[1] + Sum(Tail(seq))

\* the configuration of the README's second example
TwoResultConfig(cfg) ==
  cfg.maxCalls = 3 /\ cfg.waitSecs = 2 /\ cfg.waitMult = 1

\* an invocation of a performer that keeps the calling convention, all of
\* whose results were rejected, and that has invoked failure
FailedAllRejected(i) ==
  /\ KeepsConvention(ConfigOf(i).performer.id)
  /\ CheckerReturns(ConfigOf(i).checker)
  /\ runs[i].accepted = 0
  /\ runs[i].fail = 1

\* C16, the counts: with maxCalls = 3, waitSecs = 2 and waitMult = 1 such an
\* invocation has invoked the performer exactly 3 times, with a delay of 2
\* seconds before each retry.
C16_ThreeCallsDelaysOfTwo ==
  \A i \in Started :
    (TwoResultConfig(ConfigOf(i)) /\ FailedAllRejected(i)) =>
      /\ runs[i].perf = 3
      /\ \A k \in 1..Len(runs[i].delays) : runs[i].delays[k] = 2

\* C16: with maxCalls = 3, waitSecs = 2 and waitMult = 1, an invocation whose
\* results are all rejected invokes failure after exactly 3 performer
\* invocations, every delay is 2 seconds, and the delays from the call of
\* the handler to the failure add up to 6 seconds.
C16_FailsAfterSixSeconds ==
  \A i \in Started :
    (TwoResultConfig(ConfigOf(i)) /\ FailedAllRejected(i)) =>
      /\ runs[i].perf = 3
      /\ \A k \in 1..Len(runs[i].delays) : runs[i].delays[k] = 2
      /\ Sum(runs[i].delays) = 6

\* the number of exception warnings in a log
RECURSIVE ExceptionLines(_)
ExceptionLines(log) ==
  IF log = <<>> THEN 0
  ELSE (IF log[1].msg = "exception" THEN 1 ELSE 0) + ExceptionLines(Tail(log))

\* an invocation whose performer never throws and passes to next, at every
\* attempt, a result on which the checker throws
CheckerThrowsOnResult(i) ==
  LET cfg == ConfigOf(i)
  IN  /\ Deterministic(cfg.performer.id, runs[i].given)
      /\ TheBehaviour(cfg.performer.id, runs[i].given).how \in {"sync", "later"}
      /\ CheckerReturn(cfg.checker.id,
                       TheBehaviour(cfg.performer.id, runs[i].given).res)
           = "raise"

\* no recovery has taken place: no exception warning, attemptCount still 0,
\* no retry scheduled, failure not invoked
NotRecovered(i) ==
  /\ ExceptionLines(runs[i].log) = 0
  /\ Closure(i).calls = 0
  /\ runs[i].delays = <<>> /\ runs[i].timers = 0
  /\ runs[i].fail = 0

\* C17, for a performer that completes in a later turn: an exception of the
\* checker is not recovered.
C17_LaterCheckerFaultNotRecovered ==
  \A i \in Started :
    ( /\ CheckerThrowsOnResult(i)
      /\ TheBehaviour(ConfigOf(i).performer.id, runs[i].given).how = "later" )
    => NotRecovered(i)

\* C17: an exception raised by the checker while it evaluates an attempt's
\* result is never recovered as a performer fault: no exception warning is
\* logged, attemptCount is not incremented, no retry is scheduled and the
\* failure callback is not invoked, whether the performer invoked its
\* completion synchronously or later.
C17_CheckerFaultNotRecovered ==
  \A i \in Started : CheckerThrowsOnResult(i) => NotRecovered(i)

\* the maxCalls option the handler of invocation i was made with: <<>> when
\* the caller supplied none
SuppliedMaxCalls(i) == SuppliedOptions(runs[i].h).maxCalls

\* the first rejection has exhausted the sequence: one performer
\* invocation, no retry scheduled, no retry log line
ExhaustedAtFirstRejection(i) ==
  /\ runs[i].exhaustedAt # <<>> /\ runs[i].exhaustedAt[1] = 1
  /\ runs[i].perf = 1
  /\ runs[i].delays = <<>> /\ runs[i].timers = 0
  /\ \A k \in 1..Len(runs[i].log) : runs[i].log[k].msg # "trying again"

\* C18, for negative numbers: an invocation of a handler made with a
\* negative maxCalls is exhausted at its first rejection.
C18_NegativeExhaustsAtFirst ==
  \A i \in Started :
    ( /\ SuppliedMaxCalls(i) # <<>> /\ SuppliedMaxCalls(i)[1] < 0
      /\ runs[i].rejected >= 1 )
    => ExhaustedAtFirstRejection(i)

\* C18: an invocation of a handler made with maxCalls 0 or negative is
\* exhausted at its first rejection: after exactly one performer
\* invocation, with no retry scheduled and no retry log line.
C18_ZeroOrNegativeExhaustsAtFirst ==
  \A i \in Started :
    ( /\ SuppliedMaxCalls(i) # <<>> /\ SuppliedMaxCalls(i)[1] <= 0
      /\ runs[i].rejected >= 1 )
    => ExhaustedAtFirstRejection(i)

\* success or failure has been invoked
CallbackInvoked(i) == runs[i].succ + runs[i].fail > 0

\* C20, the state part: at most one of success and failure has been invoked,
\* at most once, and once it has, no timer is pending and no attempt is in
\* flight.
C20_OneTerminalCallback ==
  \A i \in Started :
    KeepsConvention(ConfigOf(i).performer.id) =>
      /\ runs[i].succ + runs[i].fail <= 1
      /\ CallbackInvoked(i) => Quiet(i)

\* C20, the step part: after success or failure has been invoked, no step
\* invokes the performer or a callback, sets a timer or changes
\* attemptCount.
C20_NothingAfterTerminal ==
  \A i \in Run :
    ( /\ runs[i].started
      /\ KeepsConvention(ConfigOf(i).performer.id)
      /\ CallbackInvoked(i) )
    => /\ runs'[i].perf = runs[i].perf
       /\ runs'[i].timers = runs[i].timers
       /\ runs'[i].delays = runs[i].delays
       /\ runs'[i].succ = runs[i].succ /\ runs'[i].fail = runs[i].fail
       /\ Closure(i)' = Closure(i)

\* C20, for callbacks that return: the terminal states are absorbing and
\* exclusive.
C20_AbsorbingWhenCallbacksReturn ==
  \A i \in Started :
    ( /\ KeepsConvention(ConfigOf(i).performer.id)
      /\ CallbackReturns(ConfigOf(i).success)
      /\ CallbackReturns(ConfigOf(i).failure) )
    => /\ runs[i].succ + runs[i].fail <= 1
       /\ CallbackInvoked(i) => Quiet(i)

\* C20: in an invocation whose performer completes each attempt once, at
\* most one of success and failure is ever invoked, at most once, and after
\* it nothing more happens: no performer invocation, timer, attemptCount
\* change or callback, whether the callback returns or raises.
C20_TerminalAbsorbing ==
  []C20_OneTerminalCallback /\ [][C20_NothingAfterTerminal]_vars

\* what C19 compares: the performer invocations so far, the delay set before
\* each retry, whether a retry is pending, the outcome and the arguments of
\* the terminal callback
Sequence(s) ==
  [perf     |-> s.r.perf,
   delays   |-> s.r.delays,
   timers   |-> s.r.timers,
   accepted |-> s.r.accepted > 0,
   exhausted|-> s.r.exhaustedAt # <<>>,
   success  |-> s.r.succ > 0,
   failure  |-> s.r.fail > 0,
   succArgs |-> s.r.succArgs,
   failArgs |-> s.r.failArgs]

\* the performer that calls next() where the other throws
Counterpart(p) == IF p = Fn("thrower") THEN Fn("empty") ELSE Fn("thrower")

\* the handler made with the same values as that of invocation i, but for
\* the performer
CounterpartConfig(i) ==
  LET a == told[runs[i].h]
  IN  ntil(a.checker, Counterpart(a.perform), a.success, a.failure,
           a.opts).handler

\* C19: at every turn, an invocation of a performer that always throws and
\* an invocation, with the same configuration and arguments, of a performer
\* that always calls next() with no arguments have made the same number of
\* performer invocations, set the same delays, and reached the same outcome
\* with the same callback arguments; with callbacks that return they have
\* also invoked each callback as often and hold the same attemptCount and
\* wait.
C19_ThrowingEqualsEmptyResult ==
  \A i \in Started :
    ConfigOf(i).performer \in {Fn("thrower"), Fn("empty")} =>
      \E s \in Solo(CounterpartConfig(i), runs[i].h, runs[i].given) :
        /\ Sequence(s) = Sequence(Load(i))
        /\ ( CallbackReturns(ConfigOf(i).success)
             /\ CallbackReturns(ConfigOf(i).failure) )
           => /\ s.r.succ = runs[i].succ /\ s.r.fail = runs[i].fail
              /\ s.e = Closure(i)

C19_Witness ==
  \E i \in Started :
    /\ ConfigOf(i).performer = Fn("thrower")
    /\ ConfigOf(i).maxCalls = 3 /\ ConfigOf(i).waitSecs = 2
    /\ runs[i].perf = 3
    /\ runs[i].delays = <<2, 2>>
    /\ runs[i].fail = 1 /\ runs[i].failArgs = <<>>
    /\ ExceptionLines(runs[i].log) = 3
    /\ \E s \in Solo(CounterpartConfig(i), runs[i].h, runs[i].given) :
         /\ Sequence(s) = Sequence(Load(i))
         /\ ExceptionLines(s.r.log) = 0

=============================================================================
